---- MODULE Spec2Model ----
(***************************************************************************)
(* Steam wishlist sale checker (lib/wishlist.py): identity resolution,     *)
(* price aggregation, deal classification, ranking and the main pipeline.  *)
(***************************************************************************)
EXTENDS Integers, Sequences, FiniteSets, TLC

VARIABLES
    pc,             \* position of the run / of the function under study
    env,            \* which of STEAM_ID, STEAM_API_KEY, ITAD_KEY are set
    exit_code,      \* exit status of the process: None while it runs
    calls,          \* number of requests issued to each external service
    status,         \* status code of the last response of each service
    wishlist,       \* { app_id: name } returned by fetch_steam_wishlist
    app_ids,        \* argument of itad_lookup_ids
    lookup_data,    \* JSON body of the lookup response
    steam_to_itad,  \* id_map returned by itad_lookup_ids
    itad_ids,       \* argument of itad_get_prices
    price_json,     \* JSON body of the prices response
    prices,         \* { itad_uuid: price_data } returned by itad_get_prices
    price_d,        \* argument of classify_deal
    deal_tag,       \* value returned by classify_deal
    results,        \* argument of sort_results
    sort_by,        \* strategy argument of sort_results
    sorted_results  \* value returned by sort_results

serviceVars == <<env, exit_code, calls, status, wishlist>>
lookupVars == <<app_ids, lookup_data, steam_to_itad>>
priceVars == <<itad_ids, price_json, prices>>
classifyVars == <<price_d, deal_tag>>
sortVars == <<results, sort_by, sorted_results>>

vars == <<pc, serviceVars, lookupVars, priceVars, classifyVars, sortVars>>

-----------------------------------------------------------------------------
(* Bounds of the model *)

MaxPrice == 2       \* amounts range over 0..MaxPrice
MaxLen == 3         \* longest list handed to sort_results
MaxDeals == 2       \* longest deals list of an item of a prices response
MaxApps == 2        \* Steam appids range over 1..MaxApps
MaxIds == 3         \* longest list handed to itad_lookup_ids

(* Python's None; amounts are never negative *)
None == -1

Amounts == 0..MaxPrice
OptAmounts == Amounts \cup {None}

Range(f) == {f[x] : x \in DOMAIN f}

SeqsUpTo(S, n) == UNION {[1..k -> S] : k \in 0..n}

EmptyMap == [x \in {} |-> None]

-----------------------------------------------------------------------------
(* Strings that the code takes apart are sequences of characters *)

DigitChar == <<"0", "1", "2", "3", "4", "5", "6", "7", "8", "9">>

(* str(n) of a non-negative int *)
RECURSIVE Str(_)
Str(n) == IF n < 10 THEN <<DigitChar[n + 1]>>
          ELSE Str(n \div 10) \o <<DigitChar[(n % 10) + 1]>>

(* s.replace(old, new), old not empty *)
RECURSIVE StrReplace(_, _, _)
StrReplace(s, old, new) ==
    IF Len(s) < Len(old) THEN s
    ELSE IF SubSeq(s, 1, Len(old)) = old
    THEN new \o StrReplace(SubSeq(s, Len(old) + 1, Len(s)), old, new)
    ELSE <<Head(s)>> \o StrReplace(Tail(s), old, new)

(* app_ids = [str(item["appid"]) ...] *)
SteamAppIds == {Str(n) : n \in 1..MaxApps}

-----------------------------------------------------------------------------
(* HTTP *)

StatusCodes == {200, 404, 500}

(* JSON null among strings *)
Null == "<null>"

-----------------------------------------------------------------------------
(* STEP 2 - look up ITAD game IDs from Steam IDs *)

AppPrefix == <<"a", "p", "p", "/">>

(* f"app/{app_id}" *)
ShopId(app_id) == AppPrefix \o app_id

ShopIds(ids) == [i \in 1..Len(ids) |-> ShopId(ids[i])]

Uuids == {"u1", "u2"}

(* what a lookup response can hold: any of the requested shop ids, each
   mapped to null, to an empty string or to a uuid *)
LookupResponses(shop_ids) ==
    UNION {[S -> Uuids \cup {Null, ""}] : S \in SUBSET Range(shop_ids)}

TruthyNotNone(v) == v # Null

(* truth value of a JSON string or null *)
Truthy(v) == v # Null /\ v # ""

(* the loop over data.items() *)
IdMap(data) ==
    LET kept == {k \in DOMAIN data : Truthy(data[k])}
        Strip(k) == StrReplace(k, AppPrefix, <<>>)
    IN  [a \in {Strip(k) : k \in kept} |->
            data[CHOOSE k \in kept : Strip(k) = a]]

LookupRequestsGuarded(ids) == IF ids = <<>> THEN 0 ELSE 1

(* the number of requests.post calls itad_lookup_ids(ids) makes: one,
   whatever the list *)
LookupRequests(ids) == 1

-----------------------------------------------------------------------------
(* STEP 3 - get current prices and deal info *)

(* d.get(key, default) *)
Get(d, key, default) == IF key \in DOMAIN d THEN d[key] ELSE default

(* a JSON value that is an object or null/missing: <<>> or <<object>> *)
NoObject == <<>>

(* min(deals, key=...) returns the first deal of least amount *)
MinLast(deals) ==
    LET i == CHOOSE i \in 1..Len(deals) :
                 /\ \A j \in 1..Len(deals) : deals[i].price.amount <= deals[j].price.amount
                 /\ \A j \in (i + 1)..Len(deals) : deals[j].price.amount # deals[i].price.amount
    IN  deals[i]

Min(deals) ==
    LET i == CHOOSE i \in 1..Len(deals) :
                 /\ \A j \in 1..Len(deals) : deals[i].price.amount <= deals[j].price.amount
                 /\ \A j \in 1..(i - 1) : deals[j].price.amount # deals[i].price.amount
    IN  deals[i]

(* the body of the loop for an item whose deals are not empty *)
PriceData(item) ==
    LET best == Min(Get(item, "deals", <<>>))
        history_low_obj == IF Get(item, "historyLow", NoObject) = NoObject
                           THEN [x \in {} |-> None]
                           ELSE Get(item, "historyLow", NoObject)[1]
        historical_low == Get(Get(history_low_obj, "all", [x \in {} |-> None]), "amount", None)
        one_year_low == Get(Get(history_low_obj, "y1", [x \in {} |-> None]), "amount", None)
        steam_store_low_obj == Get(best, "storeLow", NoObject)
        store_low == IF steam_store_low_obj # NoObject
                     THEN steam_store_low_obj[1].amount ELSE None
    IN  [current_price    |-> best.price.amount,
         regular_price    |-> best.regular.amount,
         discount_percent |-> Get(best, "cut", 0),
         url              |-> Get(best, "url", ""),
         store_low        |-> store_low,
         historical_low   |-> historical_low,
         one_year_low     |-> one_year_low]

(* the loop over response.json(): an item without deals is skipped, a later
   item of the same id overwrites an earlier one *)
Prices(json) ==
    LET with_deals == {i \in 1..Len(json) : Get(json[i], "deals", <<>>) # <<>>}
        Last(id) == CHOOSE i \in with_deals :
                        /\ json[i].id = id
                        /\ \A j \in with_deals : json[j].id = id => j <= i
    IN  [id \in {json[i].id : i \in with_deals} |-> PriceData(json[Last(id)])]

-----------------------------------------------------------------------------
(* STEP 4 - classify each deal *)

DEAL_TAGS ==
    [store_low       |-> <<"Steam All-Time Low", "bright_red">>,
     historical_low  |-> <<"Cross-Store Low", "dark_orange">>,
     matching_lowest |-> <<"Matching Lowest", "yellow">>,
     on_sale         |-> <<"On Sale", "green">>]

classify_deal_swapped(price_data) ==
    LET current      == price_data.current_price
        store_low    == price_data.store_low
        hist_low     == price_data.historical_low
        one_year_low == price_data.one_year_low
    IN  IF hist_low # None /\ current <= hist_low
        THEN DEAL_TAGS.historical_low
        ELSE IF store_low # None /\ current <= store_low
        THEN DEAL_TAGS.store_low
        ELSE IF one_year_low # None /\ current <= one_year_low
        THEN DEAL_TAGS.matching_lowest
        ELSE DEAL_TAGS.on_sale

classify_deal(price_data) ==
    LET current      == price_data.current_price
        store_low    == price_data.store_low
        hist_low     == price_data.historical_low
        one_year_low == price_data.one_year_low
    IN  IF store_low # None /\ current <= store_low
        THEN DEAL_TAGS.store_low
        ELSE IF hist_low # None /\ current <= hist_low
        THEN DEAL_TAGS.historical_low
        ELSE IF one_year_low # None /\ current <= one_year_low
        THEN DEAL_TAGS.matching_lowest
        ELSE DEAL_TAGS.on_sale

-----------------------------------------------------------------------------
(* STEP 5 - sort results *)

TAG_ORDER ==
    [label \in {"Steam All-Time Low", "Cross-Store Low", "Matching Lowest", "On Sale"} |->
        CASE label = "Steam All-Time Low" -> 0
          [] label = "Cross-Store Low"    -> 1
          [] label = "Matching Lowest"    -> 2
          [] label = "On Sale"            -> 3]

TagOrderGetFirst(label) == IF label \in DOMAIN TAG_ORDER THEN TAG_ORDER[label] ELSE 0

(* TAG_ORDER.get(label, 9) *)
TagOrderGet(label) == IF label \in DOMAIN TAG_ORDER THEN TAG_ORDER[label] ELSE 9

(* Python's ordering of keys; a key is a tuple, a scalar key a 1-tuple *)
KeyLess(a, b) ==
    \E i \in 1..Len(a) :
        /\ a[i] < b[i]
        /\ \A j \in 1..(i - 1) : a[j] = b[j]

Reversed(s) == [i \in 1..Len(s) |-> s[Len(s) + 1 - i]]

DiscountKey(r) == <<r.discount_percent>>
PriceKey(r) == <<r.current_price>>
DealKey(r) == <<TagOrderGet(r.deal_tag[1]), r.current_price>>

(* the lambdas handed to sorted() as key=, selected by name *)
KeyOf(key, r) ==
    IF key = "discount" THEN DiscountKey(r)
    ELSE IF key = "price" THEN PriceKey(r)
    ELSE DealKey(r)

(* list.sort on a short list is a binary insertion sort: each element goes
   to the right of the elements already placed whose key is not greater *)
InsertRight(placed, x, key) ==
    LET p == Cardinality({i \in 1..Len(placed) :
                             ~KeyLess(KeyOf(key, x), KeyOf(key, placed[i]))})
    IN  SubSeq(placed, 1, p) \o <<x>> \o SubSeq(placed, p + 1, Len(placed))

SortedAscending(s, key) ==
    LET acc[i \in 0..Len(s)] ==
            IF i = 0 THEN <<>> ELSE InsertRight(acc[i - 1], s[i], key)
    IN  acc[Len(s)]

SortedNoPreReverse(s, key, reverse) ==
    IF reverse
    THEN Reversed(SortedAscending(s, key))
    ELSE SortedAscending(s, key)

(* sorted(s, key=..., reverse=...): with reverse=True the list is reversed,
   sorted ascending and reversed back, which keeps equal keys in input order *)
Sorted(s, key, reverse) ==
    IF reverse
    THEN Reversed(SortedAscending(Reversed(s), key))
    ELSE SortedAscending(s, key)

sort_results_strict(rs, by) ==
    IF by = "discount"
    THEN Sorted(rs, "discount", TRUE)
    ELSE IF by = "price"
    THEN Sorted(rs, "price", FALSE)
    ELSE IF by = "deal"
    THEN Sorted(rs, "deal", FALSE)
    ELSE rs

sort_results(rs, by) ==
    IF by = "discount"
    THEN Sorted(rs, "discount", TRUE)
    ELSE IF by = "price"
    THEN Sorted(rs, "price", FALSE)
    ELSE Sorted(rs, "deal", FALSE)

-----------------------------------------------------------------------------
(* Values of the variables a specification does not use *)

NoCalls == [wishlist |-> 0, lookup |-> 0, prices |-> 0]
NoStatus == [wishlist |-> None, lookup |-> None, prices |-> None]
AllSet == [STEAM_ID |-> TRUE, STEAM_API_KEY |-> TRUE, ITAD_KEY |-> TRUE]
NoRecord == [current_price |-> 0, store_low |-> None,
             historical_low |-> None, one_year_low |-> None]

IdleServices ==
    /\ env = AllSet
    /\ exit_code = None
    /\ calls = NoCalls
    /\ status = NoStatus
    /\ wishlist = EmptyMap
IdleLookup ==
    /\ app_ids = <<>>
    /\ lookup_data = EmptyMap
    /\ steam_to_itad = EmptyMap
IdlePrices ==
    /\ itad_ids = <<>>
    /\ price_json = <<>>
    /\ prices = EmptyMap
IdleClassify ==
    /\ price_d = NoRecord
    /\ deal_tag = <<>>
IdleSort ==
    /\ results = <<>>
    /\ sort_by = "deal"
    /\ sorted_results = <<>>

-----------------------------------------------------------------------------
(* classify_deal applied to every price record *)

PriceRecords ==
    [current_price : Amounts, store_low : OptAmounts,
     historical_low : OptAmounts, one_year_low : OptAmounts]

InitClassify ==
    /\ pc = "classify"
    /\ price_d \in PriceRecords
    /\ deal_tag = <<>>
    /\ IdleServices /\ IdleLookup /\ IdlePrices /\ IdleSort

ClassifyDeal ==
    /\ pc = "classify"
    /\ deal_tag' = classify_deal(price_d)
    /\ pc' = "classified"
    /\ UNCHANGED <<serviceVars, lookupVars, priceVars, price_d, sortVars>>

NextClassify == ClassifyDeal

SpecClassify == InitClassify /\ [][NextClassify]_vars

-----------------------------------------------------------------------------
(* sort_results applied to every short list of rows and every strategy *)

UnknownTag == <<"Unknown", "white">>
SortTags == Range(DEAL_TAGS) \cup {UnknownTag}
Discounts == {0, 50}
Strategies == {"deal", "discount", "price", "name"}

(* rows vary in the fields the strategy's key reads, and in one more field
   that tells rows of equal key apart *)
SortRows(by) ==
    IF by \in {"discount", "price"}
    THEN [current_price : 1..MaxPrice, discount_percent : Discounts,
          deal_tag : {DEAL_TAGS.store_low, DEAL_TAGS.on_sale}]
    ELSE [current_price : 1..MaxPrice, discount_percent : {0},
          deal_tag : SortTags]

InitSort ==
    /\ pc = "sort"
    /\ sort_by \in Strategies
    /\ results \in SeqsUpTo(SortRows(sort_by), MaxLen)
    /\ sorted_results = <<>>
    /\ IdleServices /\ IdleLookup /\ IdlePrices /\ IdleClassify

SortResults ==
    /\ pc = "sort"
    /\ sorted_results' = sort_results(results, sort_by)
    /\ pc' = "sorted"
    /\ UNCHANGED <<serviceVars, lookupVars, priceVars, classifyVars, results, sort_by>>

NextSort == SortResults

SpecSort == InitSort /\ [][NextSort]_vars

-----------------------------------------------------------------------------
(* itad_lookup_ids applied to every short list of app ids, under every
   response of the mapping service *)

HttpFailedServerOnly(code) == code >= 500

(* response.status_code != 200 *)
HttpFailed(code) == code # 200

InitLookup ==
    /\ pc = "lookup"
    /\ app_ids \in SeqsUpTo(SteamAppIds, MaxIds)
    /\ lookup_data = EmptyMap
    /\ steam_to_itad = EmptyMap
    /\ IdleServices /\ IdlePrices /\ IdleClassify /\ IdleSort

ItadLookupIds ==
    /\ pc = "lookup"
    /\ \E code \in StatusCodes, data \in LookupResponses(ShopIds(app_ids)) :
        /\ calls' = [calls EXCEPT !.lookup = @ + LookupRequests(app_ids)]
        /\ status' = [status EXCEPT !.lookup = code]
        /\ IF HttpFailed(code)
           THEN /\ exit_code' = 1
                /\ pc' = "exited"
                /\ UNCHANGED <<lookup_data, steam_to_itad>>
           ELSE /\ lookup_data' = data
                /\ steam_to_itad' = IdMap(lookup_data')
                /\ pc' = "looked_up"
                /\ UNCHANGED exit_code
    /\ UNCHANGED <<env, wishlist, app_ids, priceVars, classifyVars, sortVars>>

NextLookup == ItadLookupIds

SpecLookup == InitLookup /\ [][NextLookup]_vars

-----------------------------------------------------------------------------
(* itad_get_prices applied to every small response of the pricing service *)

(* the deals of amount p: one with cut, url and storeLow, one with none *)
DealsAt(p) ==
    {[price |-> [amount |-> p], regular |-> [amount |-> MaxPrice + 1],
      cut |-> 50, url |-> "a", storeLow |-> <<[amount |-> 1]>>],
     [price |-> [amount |-> p], regular |-> [amount |-> MaxPrice + 1]]}

Deals == UNION {DealsAt(p) : p \in 1..MaxPrice}

HistoryLows == {NoObject, <<[all |-> [amount |-> 1], y1 |-> [amount |-> 2]]>>}

(* what the pricing service answers for one requested id: no item, an item
   without a deals key, or an item with a deals list and a historyLow *)
ItemOptions(deal_lists, history_lows) ==
    {[kind |-> "absent"], [kind |-> "bare"]}
    \cup [kind : {"full"}, deals : deal_lists, historyLow : history_lows]

ItemOf(id, option) ==
    IF option.kind = "absent" THEN <<>>
    ELSE IF option.kind = "bare" THEN <<[id |-> id]>>
    ELSE <<[id |-> id, deals |-> option.deals, historyLow |-> option.historyLow]>>

(* response.json(): the items answered, in the order of the request, one at
   most for an id *)
RECURSIVE PriceResponse(_, _)
PriceResponse(ids, answer) ==
    IF ids = <<>> THEN <<>>
    ELSE LET Other(id) == id # Head(ids)
         IN  ItemOf(Head(ids), answer[Head(ids)])
             \o PriceResponse(SelectSeq(Tail(ids), Other), answer)

InitPrices ==
    /\ pc = "prices"
    /\ itad_ids \in {<<"u1">>, <<"u1", "u2">>}
    /\ price_json = <<>>
    /\ prices = EmptyMap
    /\ IdleServices /\ IdleLookup /\ IdleClassify /\ IdleSort

ItadGetPrices ==
    /\ pc = "prices"
    /\ \E code \in StatusCodes,
          answer \in [Range(itad_ids) ->
                        ItemOptions(SeqsUpTo(Deals, MaxDeals), HistoryLows)] :
        /\ calls' = [calls EXCEPT !.prices = @ + 1]
        /\ status' = [status EXCEPT !.prices = code]
        /\ IF HttpFailed(code)
           THEN /\ exit_code' = 1
                /\ pc' = "exited"
                /\ UNCHANGED <<price_json, prices>>
           ELSE /\ price_json' = PriceResponse(itad_ids, answer)
                /\ prices' = Prices(price_json')
                /\ pc' = "priced"
                /\ UNCHANGED exit_code
    /\ UNCHANGED <<env, wishlist, itad_ids, lookupVars, classifyVars, sortVars>>

NextPrices == ItadGetPrices

SpecPrices == InitPrices /\ [][NextPrices]_vars

-----------------------------------------------------------------------------
(* main: one run of the pipeline *)

(* the n-th smallest element of a set of integers *)
Nth(S, n) == CHOOSE x \in S : Cardinality({y \in S : y < x}) = n - 1

(* the elements of a set of integers, ascending *)
Ascending(S) == [n \in 1..Cardinality(S) |-> Nth(S, n)]

(* the name appdetails gives, and the one used when it gives none *)
GameName(app_id) == <<"Game ">> \o app_id
AppIdName(app_id) == <<"AppID ">> \o app_id
ItadName(itad_id) == <<"ITAD:", itad_id>>

(* games of fetch_steam_wishlist: appids in ascending order stand for the
   order of the response; named are the appids whose name was resolved *)
Games(items, named) ==
    [a \in {Str(n) : n \in items} |->
        [name |-> IF \E n \in named : Str(n) = a THEN GameName(a) ELSE AppIdName(a)]]

WishlistNeverEmpty(w) == FALSE

(* not wishlist *)
WishlistEmpty(w) == DOMAIN w = {}

NoneResolvedNever(ids) == FALSE

(* not itad_ids *)
NoneResolved(ids) == Len(ids) = 0

(* not prices *)
NothingOnSale(p) == DOMAIN p = {}

(* list(steam_to_itad.values()), in the order of the request *)
Values(ids, id_map) ==
    LET Kept(a) == a \in DOMAIN id_map
        keys == SelectSeq(ids, Kept)
    IN  [i \in 1..Len(keys) |-> id_map[keys[i]]]

(* {v: k for k, v in steam_to_itad.items()}: the last key of a value wins *)
Inverse(ids, id_map) ==
    LET Kept(a) == a \in DOMAIN id_map
        keys == SelectSeq(ids, Kept)
        Last(v) == CHOOSE i \in 1..Len(keys) :
                       /\ id_map[keys[i]] = v
                       /\ \A j \in 1..Len(keys) : id_map[keys[j]] = v => j <= i
    IN  [v \in Range(id_map) |-> keys[Last(v)]]

(* the keys of prices in the order of prices.items(): first insertion *)
PriceKeys(json) ==
    LET First(i) == /\ Get(json[i], "deals", <<>>) # <<>>
                    /\ \A j \in 1..(i - 1) :
                           Get(json[j], "deals", <<>>) # <<>> => json[j].id # json[i].id
        firsts == {i \in 1..Len(json) : First(i)}
    IN  [n \in 1..Cardinality(firsts) |-> json[Nth(firsts, n)].id]

(* the row appended to results for one entry of prices *)
Row(itad_id, p, names, itad_to_steam) ==
    LET steam_app_id == Get(itad_to_steam, itad_id, <<>>)
        name == IF steam_app_id \in DOMAIN names
                THEN names[steam_app_id].name ELSE ItadName(itad_id)
    IN  [name             |-> name,
         current_price    |-> p.current_price,
         regular_price    |-> p.regular_price,
         discount_percent |-> p.discount_percent,
         url              |-> p.url,
         store_low        |-> p.store_low,
         historical_low   |-> p.historical_low,
         deal_tag         |-> classify_deal(p)]

EnvValues == [STEAM_ID : BOOLEAN, STEAM_API_KEY : BOOLEAN, ITAD_KEY : BOOLEAN]

Init ==
    /\ pc = "start"
    /\ env \in EnvValues
    /\ sort_by \in {"deal", "discount", "price"}
    /\ exit_code = None
    /\ calls = NoCalls
    /\ status = NoStatus
    /\ wishlist = EmptyMap
    /\ results = <<>>
    /\ sorted_results = <<>>
    /\ IdleLookup /\ IdlePrices /\ IdleClassify

(* the three checks of the configuration *)
CheckConfig ==
    /\ pc = "start"
    /\ IF env.STEAM_ID /\ env.STEAM_API_KEY /\ env.ITAD_KEY
       THEN pc' = "fetch" /\ UNCHANGED exit_code
       ELSE pc' = "exited" /\ exit_code' = 1
    /\ UNCHANGED <<env, calls, status, wishlist, lookupVars, priceVars,
                   classifyVars, sortVars>>

(* 1. fetch wishlist *)
FetchSteamWishlist ==
    /\ pc = "fetch"
    /\ \E code \in StatusCodes, items \in SUBSET (1..MaxApps) :
       \E named \in SUBSET items :
        /\ calls' = [calls EXCEPT !.wishlist = @ + 1]
        /\ status' = [status EXCEPT !.wishlist = code]
        /\ IF HttpFailed(code)
           THEN /\ exit_code' = 1
                /\ pc' = "exited"
                /\ UNCHANGED <<wishlist, app_ids>>
           ELSE /\ wishlist' = Games(items, named)
                /\ IF WishlistEmpty(wishlist')
                   THEN /\ exit_code' = 0
                        /\ pc' = "exited"
                        /\ UNCHANGED app_ids
                   ELSE /\ app_ids' = [i \in 1..Cardinality(items) |->
                                          Str(Ascending(items)[i])]
                        /\ pc' = "lookup"
                        /\ UNCHANGED exit_code
    /\ UNCHANGED <<env, lookup_data, steam_to_itad, priceVars, classifyVars, sortVars>>

(* 2. resolve Steam app ids to ITAD uuids *)
LookupIds ==
    /\ pc = "lookup"
    /\ \E code \in StatusCodes, data \in LookupResponses(ShopIds(app_ids)) :
        /\ calls' = [calls EXCEPT !.lookup = @ + LookupRequests(app_ids)]
        /\ status' = [status EXCEPT !.lookup = code]
        /\ IF HttpFailed(code)
           THEN /\ exit_code' = 1
                /\ pc' = "exited"
                /\ UNCHANGED <<lookup_data, steam_to_itad, itad_ids>>
           ELSE /\ lookup_data' = data
                /\ steam_to_itad' = IdMap(lookup_data')
                /\ itad_ids' = Values(app_ids, steam_to_itad')
                /\ IF NoneResolved(itad_ids')
                   THEN exit_code' = 1 /\ pc' = "exited"
                   ELSE pc' = "prices" /\ UNCHANGED exit_code
    /\ UNCHANGED <<env, wishlist, app_ids, price_json, prices, classifyVars, sortVars>>

(* 3. get current sale prices and historical lows *)
GetPrices ==
    /\ pc = "prices"
    /\ \E code \in StatusCodes,
          answer \in [Range(itad_ids) -> ItemOptions([1..1 -> Deals], {NoObject})] :
        /\ calls' = [calls EXCEPT !.prices = @ + 1]
        /\ status' = [status EXCEPT !.prices = code]
        /\ IF HttpFailed(code)
           THEN /\ exit_code' = 1
                /\ pc' = "exited"
                /\ UNCHANGED <<price_json, prices>>
           ELSE /\ price_json' = PriceResponse(itad_ids, answer)
                /\ prices' = Prices(price_json')
                /\ IF NothingOnSale(prices')
                   THEN exit_code' = 0 /\ pc' = "exited"
                   ELSE pc' = "classify" /\ UNCHANGED exit_code
    /\ UNCHANGED <<env, wishlist, itad_ids, lookupVars, classifyVars, sortVars>>

(* 4. classify and assemble results, 5. sort and display; main returns *)
ClassifyAndSort ==
    /\ pc = "classify"
    /\ LET itad_to_steam == Inverse(app_ids, steam_to_itad)
           keys == PriceKeys(price_json)
       IN  results' = [n \in 1..Len(keys) |->
                          Row(keys[n], prices[keys[n]], wishlist, itad_to_steam)]
    /\ sorted_results' = sort_results(results', sort_by)
    /\ pc' = "done"
    /\ exit_code' = 0
    /\ UNCHANGED <<env, calls, status, wishlist, lookupVars, priceVars,
                   classifyVars, sort_by>>

Next ==
    \/ CheckConfig
    \/ FetchSteamWishlist
    \/ LookupIds
    \/ GetPrices
    \/ ClassifyAndSort

Spec == Init /\ [][Next]_vars

-----------------------------------------------------------------------------
(* Claims about classify_deal *)

Cond0(p) == p.store_low # None /\ p.current_price <= p.store_low
Cond1(p) == p.historical_low # None /\ p.current_price <= p.historical_low
Cond2(p) == p.one_year_low # None /\ p.current_price <= p.one_year_low

(* C1: classify_deal returns exactly one of the four tiers, the first in the
   order store low (rank 0), cross-store low (rank 1), matching lowest
   (rank 2), on sale (rank 3) whose condition holds; an absent baseline never
   satisfies its tier and the lowest rank wins when several conditions hold *)
C1_ClassifyFirstMatch ==
    pc = "classified" =>
        /\ deal_tag \in Range(DEAL_TAGS)
        /\ deal_tag[1] \in DOMAIN TAG_ORDER
        /\ LET rank == TAG_ORDER[deal_tag[1]]
           IN  /\ rank = 0 <=> Cond0(price_d)
               /\ rank = 1 <=> ~Cond0(price_d) /\ Cond1(price_d)
               /\ rank = 2 <=> ~Cond0(price_d) /\ ~Cond1(price_d) /\ Cond2(price_d)
               /\ rank = 3 <=> ~Cond0(price_d) /\ ~Cond1(price_d) /\ ~Cond2(price_d)
               /\ rank = 0 => price_d.store_low # None
               /\ rank = 1 => price_d.historical_low # None
               /\ rank = 2 => price_d.one_year_low # None
        /\ deal_tag = DEAL_TAGS.store_low <=> TAG_ORDER[deal_tag[1]] = 0
        /\ deal_tag = DEAL_TAGS.historical_low <=> TAG_ORDER[deal_tag[1]] = 1
        /\ deal_tag = DEAL_TAGS.matching_lowest <=> TAG_ORDER[deal_tag[1]] = 2
        /\ deal_tag = DEAL_TAGS.on_sale <=> TAG_ORDER[deal_tag[1]] = 3

(* a record meeting the conditions of tiers 0, 1 and 2 at once, classified *)
C1_Witness ==
    /\ pc = "classified"
    /\ Cond0(price_d) /\ Cond1(price_d) /\ Cond2(price_d)
    /\ deal_tag = DEAL_TAGS.store_low

-----------------------------------------------------------------------------
(* Claims about sort_results *)

Count(s, r) == Cardinality({i \in 1..Len(s) : s[i] = r})

IsPermutation(a, b) ==
    /\ Len(a) = Len(b)
    /\ \A r \in Range(a) \cup Range(b) : Count(a, r) = Count(b, r)

Defined(r) == r.deal_tag[1] \in DOMAIN TAG_ORDER

(* row a may stand before row b in the "deal" order *)
DealOrdered(a, b) ==
    \/ Defined(a) /\ ~Defined(b)
    \/ /\ Defined(a) /\ Defined(b)
       /\ \/ TAG_ORDER[a.deal_tag[1]] < TAG_ORDER[b.deal_tag[1]]
          \/ /\ TAG_ORDER[a.deal_tag[1]] = TAG_ORDER[b.deal_tag[1]]
             /\ a.current_price <= b.current_price
    \/ ~Defined(a) /\ ~Defined(b) /\ a.current_price <= b.current_price

(* C2: sort_results(results, "deal") is a permutation of its input, grouped by
   ascending severity rank of the deal tag and by ascending current_price
   inside one rank; a row with a label outside the four tiers sorts after
   every row with a defined tier *)
C2_DealOrder ==
    (pc = "sorted" /\ sort_by = "deal") =>
        /\ IsPermutation(sorted_results, results)
        /\ \A i, j \in 1..Len(sorted_results) :
               i < j => DealOrdered(sorted_results[i], sorted_results[j])

(* an unknown label ahead of a defined one in the input, and two rows of one
   tier with descending prices *)
C2_Witness ==
    /\ pc = "sorted" /\ sort_by = "deal"
    /\ Len(results) = 3
    /\ ~Defined(results[1])
    /\ Defined(results[2]) /\ Defined(results[3])
    /\ results[2].deal_tag = results[3].deal_tag
    /\ results[2].current_price > results[3].current_price
    /\ sorted_results = <<results[3], results[2], results[1]>>

(* C3: for "price" (ascending current_price) and "discount" (descending
   discount_percent) sort_results returns a permutation of its input in which
   rows of equal key keep their input order *)
C3_StableSort ==
    (pc = "sorted" /\ sort_by \in {"price", "discount"}) =>
        /\ IsPermutation(sorted_results, results)
        /\ \A i, j \in 1..Len(sorted_results) :
               i < j =>
                   IF sort_by = "price"
                   THEN sorted_results[i].current_price <= sorted_results[j].current_price
                   ELSE sorted_results[i].discount_percent >= sorted_results[j].discount_percent
        /\ \A r \in Range(results) :
               LET k == IF sort_by = "price" THEN <<r.current_price>>
                                             ELSE <<r.discount_percent>>
                   Same(x) == (IF sort_by = "price" THEN <<x.current_price>>
                                                    ELSE <<x.discount_percent>>) = k
               IN  SelectSeq(sorted_results, Same) = SelectSeq(results, Same)

(* "discount": two different rows tie and a third with a higher discount
   follows them in the input *)
C3_Witness ==
    /\ pc = "sorted" /\ sort_by = "discount"
    /\ Len(results) = 3
    /\ results[1].discount_percent = results[2].discount_percent
    /\ results[1] # results[2]
    /\ results[3].discount_percent > results[1].discount_percent
    /\ sorted_results = <<results[3], results[1], results[2]>>

(* C10: for a strategy name other than "deal", "discount" and "price"
   sort_results returns what it returns for "deal" *)
C10_UnknownStrategyIsDeal ==
    (pc = "sorted" /\ sort_by \notin {"deal", "discount", "price"}) =>
        /\ sorted_results = sort_results(results, "deal")
        /\ IsPermutation(sorted_results, results)
        /\ \A i, j \in 1..Len(sorted_results) :
               i < j => DealOrdered(sorted_results[i], sorted_results[j])

C10_Witness ==
    /\ pc = "sorted" /\ sort_by = "name"
    /\ Len(results) = 3
    /\ sorted_results # results
    /\ sorted_results # Sorted(results, "price", FALSE)
    /\ sorted_results # Sorted(results, "discount", TRUE)

-----------------------------------------------------------------------------
(* Claims about itad_lookup_ids *)

(* C7, as stated: given an empty list itad_lookup_ids returns an empty mapping
   and sends no request *)
C7_EmptyInputNoRequest ==
    (pc = "looked_up" /\ app_ids = <<>>) =>
        /\ calls.lookup = 0
        /\ steam_to_itad = EmptyMap

(* C7, amended: itad_lookup_ids sends one request whatever its input, the
   empty list included; given the empty list it returns an empty mapping when
   the response is a 200 and exits with status 1 otherwise *)
C7_AlwaysOneRequest ==
    pc # "lookup" =>
        /\ calls.lookup = 1
        /\ status.lookup \in StatusCodes
        /\ app_ids = <<>> =>
               IF status.lookup = 200
               THEN pc = "looked_up" /\ steam_to_itad = EmptyMap
               ELSE pc = "exited" /\ exit_code = 1

C7_Witness ==
    /\ pc = "looked_up"
    /\ app_ids = <<>>
    /\ calls.lookup = 1
    /\ steam_to_itad = EmptyMap

Mapped(a) ==
    /\ ShopId(a) \in DOMAIN lookup_data
    /\ lookup_data[ShopId(a)] # Null
    /\ lookup_data[ShopId(a)] # ""

(* C9: after a 200 response the mapping holds exactly the app ids of the
   input that the response maps to a value other than null and the empty
   string, each with that value; an id that is absent or mapped to null or to
   "" is left out without a failure, and an id given twice has one entry *)
C9_ExactlyTheMapped ==
    pc = "looked_up" =>
        /\ exit_code = None
        /\ DOMAIN steam_to_itad = {a \in Range(app_ids) : Mapped(a)}
        /\ \A a \in DOMAIN steam_to_itad : steam_to_itad[a] = lookup_data[ShopId(a)]
        /\ Cardinality(DOMAIN steam_to_itad) <= Cardinality(Range(app_ids))

(* an id given twice and mapped, another mapped to the empty string *)
C9_Witness ==
    /\ pc = "looked_up"
    /\ Len(app_ids) = 3
    /\ app_ids[1] = app_ids[2]
    /\ app_ids[3] # app_ids[1]
    /\ Mapped(app_ids[1])
    /\ ShopId(app_ids[3]) \in DOMAIN lookup_data
    /\ lookup_data[ShopId(app_ids[3])] = ""
    /\ DOMAIN steam_to_itad = {app_ids[1]}

-----------------------------------------------------------------------------
(* Claims about itad_get_prices *)

HasDeals(item) == "deals" \in DOMAIN item /\ Len(item.deals) > 0

(* position k holds the first offer of least amount of the list *)
FirstLowest(deals, k) ==
    /\ \A j \in 1..(k - 1) : deals[j].price.amount > deals[k].price.amount
    /\ \A j \in k..Len(deals) : deals[j].price.amount >= deals[k].price.amount

(* the record is built from the offer *)
BuiltFrom(rec, offer) ==
    /\ rec.current_price = offer.price.amount
    /\ rec.regular_price = offer.regular.amount
    /\ rec.store_low = IF "storeLow" \in DOMAIN offer /\ offer.storeLow # <<>>
                       THEN offer.storeLow[1].amount ELSE None
    /\ rec.url = IF "url" \in DOMAIN offer THEN offer.url ELSE ""
    /\ rec.discount_percent = IF "cut" \in DOMAIN offer THEN offer.cut ELSE 0

(* C8: itad_get_prices returns a record for exactly the ids of the items
   whose deals list is not empty (no record, rather than a null one, for an
   item with an empty or missing list); each record is built from the offer
   of least amount of an item of that id, the first such offer in response
   order when several tie, and its store_low comes from that offer *)
C8_BestOfferPerItem ==
    pc = "priced" =>
        /\ DOMAIN prices = {price_json[i].id :
                               i \in {i \in 1..Len(price_json) : HasDeals(price_json[i])}}
        /\ \A id \in DOMAIN prices :
               /\ prices[id].current_price # None
               /\ \E i \in 1..Len(price_json) :
                      /\ price_json[i].id = id
                      /\ HasDeals(price_json[i])
                      /\ \E k \in 1..Len(price_json[i].deals) :
                             /\ FirstLowest(price_json[i].deals, k)
                             /\ BuiltFrom(prices[id], price_json[i].deals[k])

(* an item whose two offers tie, the first with a storeLow and the second
   without, and an item of another id without offers *)
C8_Witness ==
    /\ pc = "priced"
    /\ Len(price_json) = 2
    /\ HasDeals(price_json[1])
    /\ Len(price_json[1].deals) = 2
    /\ price_json[1].deals[1].price.amount = price_json[1].deals[2].price.amount
    /\ "storeLow" \in DOMAIN price_json[1].deals[1]
    /\ "storeLow" \notin DOMAIN price_json[1].deals[2]
    /\ ~HasDeals(price_json[2])
    /\ price_json[2].id # price_json[1].id
    /\ DOMAIN prices = {price_json[1].id}
    /\ prices[price_json[1].id].store_low = price_json[1].deals[1].storeLow[1].amount

-----------------------------------------------------------------------------
(* Claims about a run of main *)

(* C4: the pricing service is contacted only after fetch_steam_wishlist
   returned a wishlist that is not empty and itad_lookup_ids returned a
   mapping that is not empty *)
C4_PricesOnlyAfterResolution ==
    calls.prices > 0 =>
        /\ status.wishlist = 200
        /\ DOMAIN wishlist # {}
        /\ status.lookup = 200
        /\ DOMAIN steam_to_itad # {}

(* the pricing service was contacted *)
C4_Witness ==
    /\ calls.prices = 1
    /\ Cardinality(DOMAIN wishlist) = 2
    /\ Cardinality(DOMAIN steam_to_itad) = 1

EndedWishlistEmpty == pc = "exited" /\ status.wishlist = 200 /\ DOMAIN wishlist = {}
EndedNoneResolved == pc = "exited" /\ status.lookup = 200 /\ DOMAIN steam_to_itad = {}
EndedNothingOnSale == pc = "exited" /\ status.prices = 200 /\ DOMAIN prices = {}

C6_FailedCallAborts ==
    /\ \A svc \in {"wishlist", "lookup", "prices"} : calls[svc] <= 1
    /\ (status.wishlist # None /\ status.wishlist # 200) =>
           /\ pc = "exited" /\ exit_code = 1
           /\ calls = [wishlist |-> 1, lookup |-> 0, prices |-> 0]
           /\ results = <<>> /\ sorted_results = <<>>
    /\ (status.lookup # None /\ status.lookup # 200) =>
           /\ pc = "exited" /\ exit_code = 1
           /\ calls = [wishlist |-> 1, lookup |-> 1, prices |-> 0]
           /\ DOMAIN steam_to_itad = {} /\ DOMAIN prices = {}
           /\ results = <<>> /\ sorted_results = <<>>
    /\ (status.prices # None /\ status.prices # 200) =>
           /\ pc = "exited" /\ exit_code = 1
           /\ calls = [wishlist |-> 1, lookup |-> 1, prices |-> 1]
           /\ DOMAIN prices = {}
           /\ results = <<>> /\ sorted_results = <<>>

(* the price fetch answered 404 after two games were resolved *)
C6_Witness ==
    /\ status.prices = 404
    /\ Len(itad_ids) = 2
    /\ pc = "exited"

====
